---- MODULE Spec2Model ----
(***************************************************************************)
(* Model of build.py, the IDAPython build script: the manifest-driven      *)
(* distribution packager (build_distribution), the platform build planner  *)
(* (build_plugin with the GCC and MSVC builders) and the driver (main).    *)
(*                                                                         *)
(* Paths are sequences of path components (os.path.join concatenates,      *)
(* os.path.dirname / os.path.basename split off the last component).       *)
(* Command-line tokens are strings, built by concatenation as the script   *)
(* builds them.  File contents are natural numbers.                        *)
(***************************************************************************)
EXTENDS Integers, Sequences, FiniteSets, TLC

VARIABLES
    dirs,          \* the directories that exist (set of paths)
    files,         \* the files that exist: path -> content
    zips,          \* the archives that exist: archive path -> [entries, open]
    ziplog,        \* the archive/copy operations of the latest build_distribution call
    ncalls,        \* number of build_distribution calls made so far
    last,          \* the most recent build_distribution call (or NoRun)
    prev,          \* the build_distribution call before it (or NoRun)
    pc,            \* position of the driver
    sysname,       \* platform.system()
    args,          \* the parsed command line
    SWIG_OPTIONS,  \* the global SWIG option list (mutated by build_plugin)
    plan,          \* the locals of the build_plugin call in progress
    invocations    \* every external process started by run(), in order

vars == <<dirs, files, zips, ziplog, ncalls, last, prev, pc, sysname, args,
          SWIG_OPTIONS, plan, invocations>>

fsvars == <<dirs, files, zips, ziplog, ncalls, last, prev>>
drvvars == <<pc, sysname, args, SWIG_OPTIONS, plan, invocations>>

-----------------------------------------------------------------------------
(* Bounds of the packager harness *)

\* longest manifest the harness passes to build_distribution
MaxManifest == 2
\* number of build_distribution calls the harness makes in one process
MaxCalls == 2

-----------------------------------------------------------------------------
(* Program constants *)

IDA_MAJOR_VERSION == 6
IDA_MINOR_VERSION == 8
VERSION_MAJOR == 1
VERSION_MINOR == 7
VERSION_PATCH == 2
\* the interpreter running the script (build.py is Python 2 code)
PYTHON_MAJOR_VERSION == 2
PYTHON_MINOR_VERSION == 7

\* a macro is <<name>> (a bare string in the script) or <<name, value>> (a tuple)
COMMON_MACROS ==
    << <<"VER_MAJOR", ToString(VERSION_MAJOR)>>,
       <<"VER_MINOR", ToString(VERSION_MINOR)>>,
       <<"VER_PATCH", ToString(VERSION_PATCH)>>,
       <<"__IDP__">>,
       <<"MAXSTR", "1024">>,
       <<"USE_DANGEROUS_FUNCTIONS">>,
       <<"USE_STANDARD_FILE_FUNCTIONS">> >>

COMMON_INCLUDES == << <<".">>, <<"swig">> >>

-----------------------------------------------------------------------------
(* Sequence and path helpers *)

Range(s) == { s[i] : i \in 1..Len(s) }

Count(s, x) == Cardinality({ i \in 1..Len(s) : s[i] = x })

NoDuplicates(s) == \A i, j \in 1..Len(s) : s[i] = s[j] => i = j

\* os.path.dirname and os.path.basename of a relative path
dirname(p) == SubSeq(p, 1, Len(p) - 1)
basename(p) == p[Len(p)]

IsPrefix(p, q) == Len(p) <= Len(q) /\ SubSeq(q, 1, Len(p)) = p

\* the path and all its ancestors, as os.makedirs creates them
Ancestors(p) == { SubSeq(p, 1, n) : n \in 1..Len(p) }

\* os.path.exists
exists(d, f, p) == p \in d \/ p \in DOMAIN f

\* a manifest entry: a bare path (tuple = FALSE, destination mirrors the
\* source directory) or a (source path, destination subdirectory) tuple
Bare(p) == [tuple |-> FALSE, src |-> p, dst |-> ""]
Routed(p, d) == [tuple |-> TRUE, src |-> p, dst |-> d]

-----------------------------------------------------------------------------
(* The manifests *)

BINDIST_MANIFEST ==
    << Bare(<<"README.md">>),
       Bare(<<"COPYING.txt">>),
       Bare(<<"CHANGES.txt">>),
       Bare(<<"AUTHORS.txt">>),
       Bare(<<"STATUS.txt">>),
       Bare(<<"python.cfg">>),
       Bare(<<"docs", "notes.txt">>),
       Bare(<<"examples", "chooser.py">>),
       Bare(<<"examples", "colours.py">>),
       Bare(<<"examples", "ex_idphook_asm.py">>),
       Bare(<<"examples", "ex_uirequests.py">>),
       Bare(<<"examples", "debughook.py">>),
       Bare(<<"examples", "ex_cli.py">>),
       Bare(<<"examples", "ex1.idc">>),
       Bare(<<"examples", "ex_custdata.py">>),
       Bare(<<"examples", "ex1_idaapi.py">>),
       Bare(<<"examples", "ex1_idautils.py">>),
       Bare(<<"examples", "hotkey.py">>),
       Bare(<<"examples", "structure.py">>),
       Bare(<<"examples", "ex_gdl_qflow_chart.py">>),
       Bare(<<"examples", "ex_strings.py">>),
       Bare(<<"examples", "ex_actions.py">>),
       Bare(<<"examples", "ex_func_chooser.py">>),
       Bare(<<"examples", "ex_choose2.py">>),
       Bare(<<"examples", "ex_debug_names.py">>),
       Bare(<<"examples", "ex_graph.py">>),
       Bare(<<"examples", "ex_hotkey.py">>),
       Bare(<<"examples", "ex_patch.py">>),
       Bare(<<"examples", "ex_expr.py">>),
       Bare(<<"examples", "ex_timer.py">>),
       Bare(<<"examples", "ex_dbg.py">>),
       Bare(<<"examples", "ex_custview.py">>),
       Bare(<<"examples", "ex_prefix_plugin.py">>),
       Bare(<<"examples", "ex_pyside.py">>),
       Bare(<<"examples", "ex_pyqt.py">>),
       Bare(<<"examples", "ex_askusingform.py">>),
       Bare(<<"examples", "ex_uihook.py">>),
       Bare(<<"examples", "ex_idphook_asm.py">>),
       Bare(<<"examples", "ex_imports.py">>) >>

SRCDIST_MANIFEST ==
    << Bare(<<"BUILDING.txt">>),
       Bare(<<"python.cpp">>),
       Bare(<<"basetsd.h">>),
       Bare(<<"build.py">>),
       Bare(<<"python.cfg">>),
       Bare(<<"swig", "allins.i">>),
       Bare(<<"swig", "area.i">>),
       Bare(<<"swig", "auto.i">>),
       Bare(<<"swig", "bytes.i">>),
       Bare(<<"swig", "dbg.i">>),
       Bare(<<"swig", "diskio.i">>),
       Bare(<<"swig", "entry.i">>),
       Bare(<<"swig", "enum.i">>),
       Bare(<<"swig", "expr.i">>),
       Bare(<<"swig", "fixup.i">>),
       Bare(<<"swig", "frame.i">>),
       Bare(<<"swig", "funcs.i">>),
       Bare(<<"swig", "gdl.i">>),
       Bare(<<"swig", "ida.i">>),
       Bare(<<"swig", "idaapi.i">>),
       Bare(<<"swig", "idd.i">>),
       Bare(<<"swig", "idp.i">>),
       Bare(<<"swig", "ints.i">>),
       Bare(<<"swig", "kernwin.i">>),
       Bare(<<"swig", "lines.i">>),
       Bare(<<"swig", "loader.i">>),
       Bare(<<"swig", "moves.i">>),
       Bare(<<"swig", "nalt.i">>),
       Bare(<<"swig", "name.i">>),
       Bare(<<"swig", "netnode.i">>),
       Bare(<<"swig", "offset.i">>),
       Bare(<<"swig", "pro.i">>),
       Bare(<<"swig", "queue.i">>),
       Bare(<<"swig", "search.i">>),
       Bare(<<"swig", "segment.i">>),
       Bare(<<"swig", "srarea.i">>),
       Bare(<<"swig", "strlist.i">>),
       Bare(<<"swig", "struct.i">>),
       Bare(<<"swig", "typeconv.i">>),
       Bare(<<"swig", "typeinf.i">>),
       Bare(<<"swig", "ua.i">>),
       Bare(<<"swig", "xref.i">>),
       Bare(<<"swig", "graph.i">>),
       Bare(<<"swig", "fpro.i">>),
       Bare(<<"swig", "hexrays.i">>) >>

\* the support modules, [(x, "python") for x in ...]
PYTHON_MODULES == << <<"python", "init.py">>, <<"python", "idc.py">>,
                     <<"python", "idautils.py">> >>

RoutedAll(paths, d) == [i \in 1..Len(paths) |-> Routed(paths[i], d)]

-----------------------------------------------------------------------------
(* build_distribution *)

\* the record of a call: its arguments, whether it returned, the tree and the
\* archive entries of its target before and after it, and how many external
\* processes had been run when it was made
NoRun == [manifest |-> <<>>, root |-> "", nukeold |-> FALSE, ok |-> FALSE,
          before |-> <<>>, after |-> <<>>, zbefore |-> <<>>, zafter |-> <<>>,
          at |-> 0]

\* zippath = distrootdir + ".zip"
zippath(distrootdir) == distrootdir \o ".zip"

\* shutil.rmtree(root): the directory and everything below it goes
rmtree_dirs(d, root) == { p \in d : ~IsPrefix(<<root>>, p) }
rmtree_files(f, root) ==
    [p \in { q \in DOMAIN f : ~IsPrefix(<<root>>, q) } |-> f[p]]

\* ZipFile with the mode ignored: every archive is created afresh
ZipFile_always_truncate(z, path, mode) ==
    [p \in DOMAIN z \cup {path} |->
        IF p = path THEN [entries |-> <<>>, open |-> TRUE] ELSE z[p]]

\* ZipFile with the mode ignored: every archive is opened for appending
ZipFile_always_append(z, path, mode) ==
    IF path \in DOMAIN z
    THEN [z EXCEPT ![path].open = TRUE]
    ELSE [p \in DOMAIN z \cup {path} |->
            IF p = path THEN [entries |-> <<>>, open |-> TRUE] ELSE z[p]]

\* zipfile.ZipFile(zippath, mode): "w" creates or truncates the archive,
\* "a" opens an existing archive keeping its entries and creates a missing one
ZipFile(z, path, mode) ==
    IF mode = "a" /\ path \in DOMAIN z
    THEN [z EXCEPT ![path].open = TRUE]
    ELSE [p \in DOMAIN z \cup {path} |->
            IF p = path THEN [entries |-> <<>>, open |-> TRUE] ELSE z[p]]

\* destination directory of a manifest entry (lines 333-345)
dstdir(f, distrootdir) ==
    IF f.tuple
    THEN <<distrootdir, f.dst>>
    ELSE IF dirname(f.src) = <<>>
         THEN <<distrootdir>>
         ELSE <<distrootdir>> \o dirname(f.src)

\* dstfilepath = os.path.join(dstdir, srcfilename)
dstfilepath(f, distrootdir) == dstdir(f, distrootdir) \o <<basename(f.src)>>

\* shutil.copyfile(src, dst) on the file table
copyfile(f, src, dst) ==
    [p \in DOMAIN f \cup {dst} |-> IF p = dst THEN f[src] ELSE f[p]]

\* the archive name zipfile gives a path: leading separators are dropped
RECURSIVE arcname(_)
arcname(path) ==
    IF Len(path) > 0 /\ path[1] = "" THEN arcname(Tail(path)) ELSE path

\* zip.write(path): one more entry, named by the path, holding the file's data
zip_write(z, zp, path, f) ==
    [z EXCEPT ![zp].entries = Append(@, [name |-> arcname(path), data |-> f[path]])]

Event(n, op, path) == [call |-> n, op |-> op, path |-> path]

\* one iteration of "for f in manifest" (lines 332-352); a missing source file
\* makes shutil.copyfile raise, which ends the call with the archive left open
CopyOne(st, f, distrootdir, n) ==
    LET dd == dstdir(f, distrootdir)
        dp == dstfilepath(f, distrootdir)
        d1 == IF exists(st.dirs, st.files, dd) THEN st.dirs
              ELSE st.dirs \cup Ancestors(dd)
    IN IF f.src \notin DOMAIN st.files
       THEN [st EXCEPT !.dirs = d1, !.ok = FALSE]
       ELSE LET f1 == copyfile(st.files, f.src, dp)
            IN [st EXCEPT
                  !.dirs = d1,
                  !.files = f1,
                  !.zips = zip_write(st.zips, zippath(distrootdir), dp, f1),
                  !.log = st.log \o << Event(n, "copy", dp), Event(n, "write", dp) >>]

RECURSIVE CopyLoop(_, _, _, _, _)
CopyLoop(st, manifest, i, distrootdir, n) ==
    IF i > Len(manifest) \/ ~st.ok
    THEN st
    ELSE CopyLoop(CopyOne(st, manifest[i], distrootdir, n),
                  manifest, i + 1, distrootdir, n)

\* zip.close()
zip_close(st, zp, n) ==
    [st EXCEPT !.zips = [st.zips EXCEPT ![zp].open = FALSE],
               !.log = Append(st.log, Event(n, "close", <<zp>>))]

\* the whole of build_distribution(manifest, distrootdir, ea64, nukeold) on the
\* state st = [dirs, files, zips, log, ok]; n numbers the call in the log
build_distribution(st, manifest, distrootdir, nukeold, n) ==
    LET root == <<distrootdir>>
        nuke == nukeold /\ exists(st.dirs, st.files, root)
        d1 == IF nuke THEN rmtree_dirs(st.dirs, distrootdir) ELSE st.dirs
        f1 == IF nuke THEN rmtree_files(st.files, distrootdir) ELSE st.files
        d2 == IF exists(d1, f1, root) THEN d1 ELSE d1 \cup {root}
        zp == zippath(distrootdir)
        z1 == ZipFile(st.zips, zp, IF nukeold THEN "w" ELSE "a")
        opened == [dirs |-> d2, files |-> f1, zips |-> z1, ok |-> TRUE,
                   log |-> Append(st.log, Event(n, "open", <<zp>>))]
        looped == CopyLoop(opened, manifest, 1, distrootdir, n)
    IN IF looped.ok THEN zip_close(looped, zp, n) ELSE looped

\* the files below a distribution root, and the entries of its archive
TreeOf(f, distrootdir) ==
    [p \in { q \in DOMAIN f : IsPrefix(<<distrootdir>>, q) /\ Len(q) > 1 } |-> f[p]]
EntriesOf(z, distrootdir) ==
    IF zippath(distrootdir) \in DOMAIN z THEN z[zippath(distrootdir)].entries ELSE <<>>

\* the state change of one call of build_distribution, with its record
Distribute(manifest, distrootdir, nukeold) ==
    LET st == [dirs |-> dirs, files |-> files, zips |-> zips, log |-> <<>>,
               ok |-> TRUE]
    IN \E r \in {build_distribution(st, manifest, distrootdir, nukeold, ncalls + 1)} :
       /\ dirs' = r.dirs
       /\ files' = r.files
       /\ zips' = r.zips
       /\ ziplog' = r.log
       /\ ncalls' = ncalls + 1
       /\ prev' = last
       /\ last' = [manifest |-> manifest, root |-> distrootdir,
                   nukeold |-> nukeold, ok |-> r.ok,
                   before |-> TreeOf(files, distrootdir),
                   after |-> TreeOf(r.files, distrootdir),
                   zbefore |-> EntriesOf(zips, distrootdir),
                   zafter |-> EntriesOf(r.zips, distrootdir),
                   at |-> Len(invocations)]

-----------------------------------------------------------------------------
(* The builders *)

GCCBuilder ==
    [kind |-> "gcc",
     include_directive |-> "-I",
     define_directive |-> "-D",
     libpath_directive |-> "-L",
     compiler_parameters |-> <<"-m32", "-fpermissive", "-Wno-write-strings">>,
     linker_parameters |-> <<"-m32", "-shared">>,
     basemacros |-> <<>>,
     compiler |-> "g++",
     linker |-> "g++",
     source_extension |-> ".cpp",
     object_extension |-> ".o"]

MSVCBuilder ==
    [kind |-> "msvc",
     include_directive |-> "/I",
     define_directive |-> "/D",
     libpath_directive |-> "/LIBPATH:",
     compiler_parameters |-> <<"/nologo", "/EHsc">>,
     linker_parameters |-> <<"/nologo", "/dll", "/export:PLUGIN">>,
     basemacros |-> << <<"WIN32">>, <<"_USRDLL">>, <<"__NT__">> >>,
     compiler |-> "cl",
     linker |-> "link",
     source_extension |-> ".cpp",
     object_extension |-> ".obj"]

compiler_in_string(b, filename) ==
    IF b.kind = "gcc" THEN <<"-c", filename>> ELSE <<"/c", filename>>

compiler_out_string(b, filename) ==
    IF b.kind = "gcc" THEN <<"-o", filename>> ELSE <<"/Fo" \o filename>>

linker_out_string(b, filename) ==
    IF b.kind = "gcc" THEN <<"-o", filename>> ELSE <<"/out:" \o filename>>

\* BuilderBase._build_command_string: a tuple becomes directive name=value,
\* a bare token directive name; includes are one-component tokens
build_command_string(tokens, directive) ==
    [i \in 1..Len(tokens) |->
        IF Len(tokens[i]) = 2
        THEN directive \o tokens[i][1] \o "=" \o tokens[i][2]
        ELSE directive \o tokens[i][1]]

\* BuilderBase.compile with objectname=None: the macro list, the defines and
\* the argv handed to run()
compile(b, source, includes, macros) ==
    LET allmacros == COMMON_MACROS \o b.basemacros \o macros
        defines_argv == build_command_string(allmacros, b.define_directive)
        allincludes == COMMON_INCLUDES \o includes
        includes_argv == build_command_string(allincludes, b.include_directive)
        objectname == source \o b.object_extension
    IN [allmacros |-> allmacros,
        defines |-> defines_argv,
        objects |-> <<objectname>>,
        argv |-> <<b.compiler>> \o b.compiler_parameters
                 \o compiler_out_string(b, objectname)
                 \o compiler_in_string(b, source \o b.source_extension)
                 \o includes_argv \o defines_argv]

\* BuilderBase.link
link(b, objects, outfile, libpaths, libraries, extra_parameters) ==
    [allmacros |-> <<>>,
     defines |-> <<>>,
     objects |-> [i \in 1..Len(objects) |-> objects[i] \o b.object_extension],
     argv |-> <<b.linker>> \o b.linker_parameters
              \o linker_out_string(b, outfile)
              \o [i \in 1..Len(objects) |-> objects[i] \o b.object_extension]
              \o [i \in 1..Len(libpaths) |-> b.libpath_directive \o libpaths[i]]
              \o libraries \o extra_parameters]

-----------------------------------------------------------------------------
(* Platform detection and the build plan *)

Systems == {"Windows", "Microsoft", "Linux", "Darwin", "FreeBSD"}

\* detect_platform(ea64): (system, platform_string, plugin_name), or the
\* platform_string "" when the script prints "Unknown platform!" and exits
detect_platform(system, ea64) ==
    IF system \in {"Windows", "Microsoft"}
    THEN <<"Windows", "win32", IF ea64 THEN "python.p64" ELSE "python.plw">>
    ELSE IF system = "Linux"
    THEN <<system, "linux", IF ea64 THEN "python.plx64" ELSE "python.plx">>
    ELSE IF system = "Darwin"
    THEN <<system, "macosx", IF ea64 THEN "python.pmc64" ELSE "python.pmc">>
    ELSE <<system, "", "">>

\* os.sep and os.path.join on strings
ossep(system) == IF system \in {"Windows", "Microsoft"} THEN "\\" ELSE "/"
path_join(system, a, b) == a \o ossep(system) \o b

\* sysconfig.EXEC_PREFIX and sysconfig.get_config_var('INCLUDEPY')
EXEC_PREFIX(system) == IF system \in {"Windows", "Microsoft"} THEN "C:\\Python27" ELSE "/usr"
PYTHON_INCLUDE_DIRECTORY(system) ==
    IF system \in {"Windows", "Microsoft"} THEN "C:\\Python27\\include"
    ELSE "/usr/include/python" \o ToString(PYTHON_MAJOR_VERSION) \o "."
         \o ToString(PYTHON_MINOR_VERSION)

\* SWIG_OPTIONS as the module body leaves it (lines 71-74, 91-92)
SWIG_BIN(a) == IF a.swig_bin # "" THEN a.swig_bin ELSE "swig"
SWIG_INC(a) == [i \in 1..Len(a.swig_inc) |-> "-I" \o a.swig_inc[i]]
InitialSwigOptions(a) ==
    <<"-modern", "-python", "-threads", "-c++", "-w451", "-shadow", "-D__GNUC__">>
    \o SWIG_INC(a)

\* the platform branch of build_plugin (lines 373-408)
platform_settings(system, a, platform, idasdkdir, ea64) ==
    LET lib == path_join(system, idasdkdir, "lib")
    IN IF platform = "linux" THEN
         [builder |-> [GCCBuilder EXCEPT !.compiler_parameters = Append(@, "-O2")],
          platform_macros |-> << <<"__LINUX__">> >>,
          python_libpath |-> path_join(system, EXEC_PREFIX(system), "lib"),
          python_library |-> <<"-Bdynamic",
                               "-lpython" \o ToString(PYTHON_MAJOR_VERSION) \o "."
                               \o ToString(PYTHON_MINOR_VERSION)>>,
          ida_libpath |-> path_join(system, lib,
                              IF ea64 THEN "x86_linux_gcc_64" ELSE "x86_linux_gcc_32"),
          ida_lib |-> "",
          swig_extra |-> <<>>,
          extra_link_parameters |-> <<"-s">>]
       ELSE IF platform = "win32" THEN
         [builder |-> IF ~a.debug
                      THEN [MSVCBuilder EXCEPT !.compiler_parameters = Append(@, "-Ox")]
                      ELSE MSVCBuilder,
          platform_macros |-> << <<"__NT__">> >>,
          python_libpath |-> path_join(system, EXEC_PREFIX(system), "libs"),
          python_library |-> <<"python" \o ToString(PYTHON_MAJOR_VERSION)
                               \o ToString(PYTHON_MINOR_VERSION) \o ".lib">>,
          ida_libpath |-> path_join(system, lib,
                              IF ea64 THEN "x86_win_vc_64" ELSE "x86_win_vc_32"),
          ida_lib |-> "ida.lib",
          swig_extra |-> <<"-D__NT__">>,
          extra_link_parameters |-> <<>>]
       ELSE
         [builder |-> [GCCBuilder EXCEPT !.linker_parameters = Append(@, "-dynamiclib"),
                                         !.compiler_parameters = Append(@, "-O3")],
          platform_macros |-> << <<"__MAC__">> >>,
          python_libpath |-> ".",
          python_library |-> <<"-framework", "Python">>,
          ida_libpath |-> path_join(system, lib,
                              IF ea64 THEN "x86_mac_gcc_64" ELSE "x86_mac_gcc_32"),
          ida_lib |-> IF ea64 THEN "-lida64" ELSE "-lida",
          swig_extra |-> <<>>,
          extra_link_parameters |-> <<"-s">>]

\* the address-width macro left out of the SWIG command line
swig_ea64_option_never(ea64) == <<>>

\* "if ea64: swig_argv.append("-D__EA64__")" (lines 431-432)
swig_ea64_option(ea64) == IF ea64 THEN <<"-D__EA64__">> ELSE <<>>

\* "if ea64: platform_macros.append("__EA64__")" (lines 411-412)
ea64_macros(ea64) == IF ea64 THEN << <<"__EA64__">> >> ELSE <<>>

\* the decompiler macro added whether or not the flag is given
hexrays_macros_always(with_hexrays) == << <<"WITH_HEXRAYS">> >>

\* "if with_hexrays: platform_macros.append("WITH_HEXRAYS")" (lines 415-416)
hexrays_macros(with_hexrays) == IF with_hexrays THEN << <<"WITH_HEXRAYS">> >> ELSE <<>>

\* build_plugin up to the SWIG invocation (lines 365-434): the locals of the
\* call, the SWIG option list as the call leaves it, and the SWIG argv
build_plugin(system, a, swigopts, platform, idasdkdir, plugin_name, ea64) ==
    LET s == platform_settings(system, a, platform, idasdkdir, ea64)
        ida_include_directory == path_join(system, idasdkdir, "include")
        m1 == s.platform_macros \o ea64_macros(ea64)
        m2 == m1 \o hexrays_macros(a.with_hexrays)
        m3 == Append(m2, <<"NDEBUG">>)
        m4 == IF ~a.no_early_load THEN Append(m3, <<"PLUGINFIX">>) ELSE m3
        o1 == swigopts \o s.swig_extra
        o2 == IF a.with_hexrays THEN Append(o1, "-DWITH_HEXRAYS") ELSE o1
        argv == <<SWIG_BIN(a)>> \o o2 \o <<"-Iswig", "-o", "idaapi.cpp">>
                \o swig_ea64_option(ea64)
                \o <<"-I" \o ida_include_directory, "idaapi.i">>
    IN [platform |-> platform,
        ea64 |-> ea64,
        plugin_name |-> plugin_name,
        builder |-> s.builder,
        platform_macros |-> m4,
        includes |-> << <<PYTHON_INCLUDE_DIRECTORY(system)>>, <<ida_include_directory>> >>,
        python_libpath |-> s.python_libpath,
        python_library |-> s.python_library,
        ida_libpath |-> s.ida_libpath,
        ida_lib |-> s.ida_lib,
        extra_link_parameters |-> s.extra_link_parameters,
        swig_options |-> o2,
        swig_argv |-> argv]

NoPlan == build_plugin("Linux", [swig_bin |-> "", swig_inc |-> <<>>, with_hexrays |-> FALSE,
                                 ea64 |-> FALSE, debug |-> FALSE, no_early_load |-> FALSE,
                                 ida_sdk |-> ""],
                       <<>>, "linux", "", "", FALSE)

\* BINDISTDIR and SRCDISTDIR (lines 495-502, 522-524)
BINDISTDIR(platform_string) ==
    "idapython-" \o ToString(VERSION_MAJOR) \o "." \o ToString(VERSION_MINOR) \o "."
    \o ToString(VERSION_PATCH) \o "_ida" \o ToString(IDA_MAJOR_VERSION) \o "."
    \o ToString(IDA_MINOR_VERSION) \o "_py" \o ToString(PYTHON_MAJOR_VERSION) \o "."
    \o ToString(PYTHON_MINOR_VERSION) \o "_" \o platform_string

SRCDISTDIR ==
    "idapython-" \o ToString(VERSION_MAJOR) \o "." \o ToString(VERSION_MINOR) \o "."
    \o ToString(VERSION_PATCH)

\* the support modules listed in every pass, the append pass included
binmanifest_always_modules(plugin_name, ea64, nukeold) ==
    (IF nukeold THEN BINDIST_MANIFEST ELSE <<>>)
    \o RoutedAll(PYTHON_MODULES \o << <<"idaapi.py">> >>, "python")
    \o << Routed(<<plugin_name>>, "plugins") >>

\* the manifest build_binary_package passes (lines 507-514)
binmanifest(plugin_name, ea64, nukeold) ==
    (IF nukeold THEN BINDIST_MANIFEST ELSE <<>>)
    \o (IF ~ea64 \/ nukeold
        THEN RoutedAll(PYTHON_MODULES \o << <<"idaapi.py">> >>, "python")
        ELSE <<>>)
    \o << Routed(<<plugin_name>>, "plugins") >>

\* the manifest build_source_package passes (lines 526-529)
srcmanifest ==
    BINDIST_MANIFEST \o SRCDIST_MANIFEST \o RoutedAll(PYTHON_MODULES, "python")

-----------------------------------------------------------------------------
(* The source tree *)

\* every file a manifest of the driver names that is not made by the build
SourceList == srcmanifest

\* each source file has its own content: its first position in SourceList
ContentOf(p) ==
    CHOOSE i \in 1..Len(SourceList) :
        /\ SourceList[i].src = p
        /\ \A j \in 1..(i - 1) : SourceList[j].src # p

FullSourceTree ==
    [p \in { SourceList[i].src : i \in 1..Len(SourceList) } |-> ContentOf(p)]

\* the source tree with some files missing
SourceTree(missing) == [p \in DOMAIN FullSourceTree \ missing |-> FullSourceTree[p]]

\* content of what a build generates: told apart by address width
Generated(ea64) == IF ea64 THEN 164 ELSE 132
\* content of a file left over from an earlier version of the distribution
StaleContent(path) == 999

\* a function extended or overwritten at some points
Overlay(f, g) == [p \in DOMAIN f \cup DOMAIN g |-> IF p \in DOMAIN g THEN g[p] ELSE f[p]]
FileAt(p, c) == [q \in {p} |-> c]

\* what an earlier run may have left at a distribution root
StaleDirs(root, kind) ==
    IF kind = "none" THEN {} ELSE IF kind = "empty" THEN {<<root>>}
    ELSE {<<root>>, <<root, "old">>}
StaleFiles(root, kind) ==
    IF kind = "full"
    THEN Overlay(FileAt(<<root, "old", "gone.py">>, StaleContent(<<root, "old", "gone.py">>)),
                 FileAt(<<root, "README.md">>, StaleContent(<<root, "README.md">>)))
    ELSE <<>>
StaleZips(root, kind) ==
    IF kind = "none" THEN <<>>
    ELSE FileAt(zippath(root),
           [entries |-> IF kind = "empty" THEN <<>>
                        ELSE << [name |-> <<root, "old", "gone.py">>,
                                 data |-> StaleContent(<<root, "old", "gone.py">>)],
                                [name |-> <<root, "README.md">>,
                                 data |-> StaleContent(<<root, "README.md">>)] >>,
            open |-> FALSE])
StaleKinds == {"none", "empty", "full"}

-----------------------------------------------------------------------------
(* The driver: main, build_binary_package, build_plugin, build_source_package *)

ArgsSet ==
    [ea64 : BOOLEAN, with_hexrays : BOOLEAN, debug : BOOLEAN,
     \* argparse rejects a command line holding --no-early-load, so main is
     \* only ever reached without it
     no_early_load : {FALSE},
     swig_bin : {"", "/opt/my-swig/bin/swig"},
     swig_inc : {<<>>, <<"/opt/my-swig/share/swig/2.0.12/python",
                         "/opt/my-swig/share/swig/2.0.12">>},
     ida_sdk : {"idasdk68"}]

\* run() with the exit status ignored (subprocess.call for check_call)
after_run_ignoring_status(ok, next) == next

\* run(): subprocess.check_call raises on a non-zero exit status, which nothing
\* catches: the process ends; otherwise the caller goes on
after_run(ok, next) == IF ok THEN next ELSE "failed"

\* the patch step tied to the wrong platform
needs_patch_on_linux(platform) == platform = "linux"

\* "if platform == "win32":" before the patch step (line 442)
needs_patch(platform) == platform = "win32"

\* main: the 32-bit package is recreated, the 64-bit one appended (lines 609-613)
main_nukeold(ea64) == ~ea64

\* "if args.ea64:" in main, after the first build_binary_package (line 612)
after_package(ea64, a) == IF ~ea64 /\ a.ea64 THEN "build64" ELSE "source"

Invocation(step, p, cmd, ok) ==
    [step |-> step, platform |-> p.platform, ea64 |-> p.ea64,
     argv |-> cmd.argv, defines |-> cmd.defines,
     allmacros |-> cmd.allmacros, objects |-> cmd.objects, ok |-> ok]

Bare_argv(argv) == [argv |-> argv, defines |-> <<>>, allmacros |-> <<>>, objects |-> <<>>]

DriverInit ==
    /\ sysname \in Systems
    /\ args \in ArgsSet
    /\ \E missing \in {{}, {<<"STATUS.txt">>}, {<<"swig", "hexrays.i">>}},
          stale \in {"none", "full"} :
         LET root == BINDISTDIR(detect_platform(sysname, FALSE)[2])
         IN /\ files = Overlay(SourceTree(missing), StaleFiles(root, stale))
            /\ dirs = StaleDirs(root, stale)
            /\ zips = StaleZips(root, stale)
    /\ ziplog = <<>>
    /\ ncalls = 0
    /\ last = NoRun
    /\ prev = NoRun
    /\ pc = "build32"
    /\ SWIG_OPTIONS = InitialSwigOptions(args)
    /\ plan = NoPlan
    /\ invocations = <<>>

\* detect_platform finds no supported system: "Unknown platform!", sys.exit(-1)
UnknownPlatform ==
    /\ pc \in {"build32", "build64"}
    /\ detect_platform(sysname, pc = "build64")[2] = ""
    /\ pc' = "exit"
    /\ UNCHANGED <<fsvars, sysname, args, SWIG_OPTIONS, plan, invocations>>

\* build_binary_package calls build_plugin, which plans the build and runs SWIG
RunSwig ==
    /\ pc \in {"build32", "build64"}
    /\ LET ea64 == (pc = "build64")
           d == detect_platform(sysname, ea64)
           p == build_plugin(sysname, args, SWIG_OPTIONS, d[2], args.ida_sdk, d[3], ea64)
       IN /\ d[2] # ""
          /\ plan' = p
          /\ SWIG_OPTIONS' = p.swig_options
          /\ \E ok \in BOOLEAN :
               /\ invocations' = Append(invocations,
                                   Invocation("swig", p, Bare_argv(p.swig_argv), ok))
               /\ files' = IF ok
                           THEN Overlay(files,
                                  [q \in {<<"idaapi.cpp">>, <<"idaapi.py">>, <<"idaapi.h">>}
                                     |-> Generated(ea64)])
                           ELSE files
               /\ pc' = after_run(ok, IF needs_patch(p.platform) THEN "patch"
                                      ELSE "compile_wrapper")
    /\ UNCHANGED <<dirs, zips, ziplog, ncalls, last, prev, sysname, args>>

\* the calling-convention patch step (lines 442-444)
RunPatch ==
    /\ pc = "patch"
    /\ \E ok \in BOOLEAN :
         /\ invocations' = Append(invocations,
               Invocation("patch", plan,
                          Bare_argv(<<"python", "patch_directors_cc.py", "-f", "idaapi.h">>), ok))
         /\ files' = IF ok THEN Overlay(files, FileAt(<<"idaapi.h">>, files[<<"idaapi.h">>] + 1))
                     ELSE files
         /\ pc' = after_run(ok, "compile_wrapper")
    /\ UNCHANGED <<dirs, zips, ziplog, ncalls, last, prev, sysname, args, SWIG_OPTIONS, plan>>

\* builder.compile(source, ...) and its object file
Compile(source, step, next) ==
    LET cmd == compile(plan.builder, source, plan.includes, plan.platform_macros)
    IN \E ok \in BOOLEAN :
         /\ invocations' = Append(invocations, Invocation(step, plan, cmd, ok))
         /\ files' = IF ok THEN Overlay(files, FileAt(<<cmd.objects[1]>>, Generated(plan.ea64)))
                     ELSE files
         /\ pc' = after_run(ok, next)

\* compile the wrapper (lines 447-450)
CompileWrapper ==
    /\ pc = "compile_wrapper"
    /\ Compile("idaapi", "compile_wrapper", "compile_main")
    /\ UNCHANGED <<dirs, zips, ziplog, ncalls, last, prev, sysname, args, SWIG_OPTIONS, plan>>

\* compile the main plugin source (lines 453-456)
CompileMain ==
    /\ pc = "compile_main"
    /\ Compile("python", "compile_main", "link")
    /\ UNCHANGED <<dirs, zips, ziplog, ncalls, last, prev, sysname, args, SWIG_OPTIONS, plan>>

\* link the final binary (lines 459-467)
Link ==
    /\ pc = "link"
    /\ LET cmd == link(plan.builder, <<"idaapi", "python">>, plan.plugin_name,
                       <<plan.python_libpath, plan.ida_libpath>>,
                       plan.python_library \o <<plan.ida_lib>>,
                       plan.extra_link_parameters)
       IN \E ok \in BOOLEAN :
            /\ invocations' = Append(invocations, Invocation("link", plan, cmd, ok))
            /\ files' = IF ok
                        THEN Overlay(files, FileAt(<<plan.plugin_name>>, Generated(plan.ea64)))
                        ELSE files
            /\ pc' = after_run(ok, "package")
    /\ UNCHANGED <<dirs, zips, ziplog, ncalls, last, prev, sysname, args, SWIG_OPTIONS, plan>>

\* build_binary_package after build_plugin returned (lines 506-516)
PackageBinary ==
    /\ pc = "package"
    /\ Distribute(binmanifest(plan.plugin_name, plan.ea64, main_nukeold(plan.ea64)),
                  BINDISTDIR(plan.platform), main_nukeold(plan.ea64))
    /\ pc' = IF last'.ok THEN after_package(plan.ea64, args) ELSE "failed"
    /\ UNCHANGED <<sysname, args, SWIG_OPTIONS, plan, invocations>>

\* build_source_package (lines 520-530)
PackageSource ==
    /\ pc = "source"
    /\ Distribute(srcmanifest, SRCDISTDIR, TRUE)
    /\ pc' = IF last'.ok THEN "done" ELSE "failed"
    /\ UNCHANGED <<sysname, args, SWIG_OPTIONS, plan, invocations>>

Next ==
    \/ UnknownPlatform
    \/ RunSwig
    \/ RunPatch
    \/ CompileWrapper
    \/ CompileMain
    \/ Link
    \/ PackageBinary
    \/ PackageSource

Spec == DriverInit /\ [][Next]_vars

-----------------------------------------------------------------------------
(* The packager on its own: build_distribution called with any manifest *)

HarnessRoot == "out"

\* a top-level file, a file in a subdirectory, and a routed file whose
\* destination is that of docs/notes.txt
HarnessEntries ==
    { Bare(<<"README.md">>),
      Bare(<<"docs", "notes.txt">>),
      Routed(<<"backup", "notes.txt">>, "docs") }

\* the source tree of the harness; backup/notes.txt may be missing
HarnessSources(backup) ==
    [p \in {<<"README.md">>, <<"docs", "notes.txt">>}
           \cup (IF backup THEN {<<"backup", "notes.txt">>} ELSE {})
       |-> IF p = <<"README.md">> THEN 1
           ELSE IF p = <<"docs", "notes.txt">> THEN 2
           ELSE 3]

RECURSIVE SeqsUpTo(_, _)
SeqsUpTo(S, n) ==
    IF n = 0 THEN {<<>>}
    ELSE LET shorter == SeqsUpTo(S, n - 1)
         IN shorter \cup { Append(s, x) : s \in shorter, x \in S }

HarnessManifests == SeqsUpTo(HarnessEntries, MaxManifest)

\* the driver's variables where the driver does not run
DriverIdle ==
    /\ sysname = "Linux"
    /\ args \in { a \in ArgsSet : ~a.ea64 /\ ~a.with_hexrays /\ ~a.debug
                                  /\ a.swig_bin = "" /\ a.swig_inc = <<>> }
    /\ SWIG_OPTIONS = InitialSwigOptions(args)
    /\ plan = NoPlan
    /\ invocations = <<>>

DistInit ==
    /\ \E sdir \in {"none", "full"}, szip \in {"none", "full"}, backup \in BOOLEAN :
         /\ files = Overlay(HarnessSources(backup), StaleFiles(HarnessRoot, sdir))
         /\ dirs = StaleDirs(HarnessRoot, sdir)
         /\ zips = StaleZips(HarnessRoot, szip)
    /\ ziplog = <<>>
    /\ ncalls = 0
    /\ last = NoRun
    /\ prev = NoRun
    /\ pc = "harness"
    /\ DriverIdle

\* one call of build_distribution; an exception ends the process
Package ==
    /\ ncalls < MaxCalls
    /\ ncalls > 0 => last.ok
    /\ \E manifest \in HarnessManifests, nukeold \in BOOLEAN :
         Distribute(manifest, HarnessRoot, nukeold)
    /\ UNCHANGED drvvars

DistNext == Package

SpecDist == DistInit /\ [][DistNext]_vars

-----------------------------------------------------------------------------
(* The packager run again over its own output: the manifests main passes,   *)
(* each packaged in recreate mode, as a second run of the script does       *)

\* the manifests main passes in recreate mode, with their targets
DriverTargets ==
    { [manifest |-> binmanifest(detect_platform(s, FALSE)[3], FALSE, TRUE),
       root |-> BINDISTDIR(detect_platform(s, FALSE)[2])] : s \in {"Linux", "Windows", "Darwin"} }
    \cup { [manifest |-> srcmanifest, root |-> SRCDISTDIR] }

AgainInit ==
    /\ \E stale \in StaleKinds, t \in DriverTargets :
         /\ files = Overlay(
                      Overlay(SourceTree({}), StaleFiles(t.root, stale)),
                      [q \in {<<"python.plx">>, <<"python.plw">>, <<"python.pmc">>,
                              <<"idaapi.py">>} |-> Generated(FALSE)])
         /\ dirs = StaleDirs(t.root, stale)
         /\ zips = StaleZips(t.root, stale)
    /\ ziplog = <<>>
    /\ ncalls = 0
    /\ last = NoRun
    /\ prev = NoRun
    /\ pc = "harness"
    /\ DriverIdle

\* a recreate-mode call with one of main's manifests on its target
Repackage ==
    /\ ncalls < MaxCalls
    /\ \E t \in DriverTargets : Distribute(t.manifest, t.root, TRUE)
    /\ UNCHANGED drvvars

AgainNext == Repackage

SpecAgain == AgainInit /\ [][AgainNext]_vars

-----------------------------------------------------------------------------
(* Properties of the packager (SpecDist) *)

\* the paths of the files below a root, and the names of its archive's entries
TreePaths(root) == DOMAIN TreeOf(files, root)
ArchiveNames(root) == { e.name : e \in Range(EntriesOf(zips, root)) }
InSync(root) == TreePaths(root) = ArchiveNames(root)

\* a step that is a call of build_distribution
Called == ncalls' = ncalls + 1

\* C1: once a recreate-mode call of build_distribution has been made on a
\* target, the set of file paths below the target directory equals the set of
\* entry names of the target's archive, and every later call (recreate or
\* append, with any manifest, completed or ended by a missing source file)
\* keeps the two sets equal.
C1_RoundTrip ==
    /\ [][(Called /\ last'.nukeold) => InSync(HarnessRoot)']_vars
    /\ [][(Called /\ InSync(HarnessRoot)) => InSync(HarnessRoot)']_vars

\* C1 witness: a recreate call over a stale tree and a stale archive, then an
\* append call, left two files that are the archive's two entry names
C1_Witness ==
    /\ ncalls = 2 /\ prev.nukeold /\ prev.ok /\ ~last.nukeold /\ last.ok
    /\ DOMAIN prev.before # {} /\ prev.zbefore # <<>>
    /\ Cardinality(TreePaths(HarnessRoot)) = 2
    /\ InSync(HarnessRoot)

\* the destinations a manifest names below a root, and the archive names
Destinations(manifest, root) ==
    { dstfilepath(manifest[i], root) : i \in 1..Len(manifest) }
NamesOf(entries) == [i \in 1..Len(entries) |-> entries[i].name]
EntriesNamed(entries, name) == SelectSeq(entries, LAMBDA e : e.name = name)

\* a completed recreate call followed by a completed append call on one target
RecreateThenAppend ==
    /\ ncalls >= 2
    /\ prev.nukeold /\ prev.ok /\ ~last.nukeold /\ last.ok
    /\ prev.root = last.root

\* C2: after manifest A in recreate mode and manifest B in append mode on one
\* target, the directory and the archive hold exactly the union of A's and B's
\* entries, and every entry the A run wrote is unmodified by the B run: the
\* same content in the directory and the same single entry in the archive.
C2_AppendKeepsFirstRun ==
    RecreateThenAppend =>
        LET union == Destinations(prev.manifest, last.root)
                     \cup Destinations(last.manifest, last.root)
        IN /\ TreePaths(last.root) = union
           /\ ArchiveNames(last.root) = union
           /\ \A p \in DOMAIN prev.after :
                /\ last.after[p] = prev.after[p]
                /\ Len(EntriesNamed(last.zafter, p)) = 1
                /\ EntriesNamed(last.zafter, p) = EntriesNamed(prev.zafter, p)

\* an append-mode call made when the directory or the archive is missing
AppendOnMissingTarget ==
    /\ Called
    /\ ~last'.nukeold
    /\ (<<last'.root>> \notin dirs \/ zippath(last'.root) \notin DOMAIN zips)

IsSeqPrefix(s, u) == Len(s) <= Len(u) /\ SubSeq(u, 1, Len(s)) = s

\* C10 as amended: an append-mode call made when the target directory or the
\* target archive does not exist is not an error: it creates whichever is
\* missing, keeps what exists (the files the manifest does not name, and every
\* archive entry), and adds the manifest's entries to both; it fails only when
\* a source file of the manifest is missing.
C10_AppendCreatesTarget ==
    [][AppendOnMissingTarget =>
         LET r == last'
         IN /\ <<r.root>> \in dirs'
            /\ zippath(r.root) \in DOMAIN zips'
            /\ dirs \subseteq dirs'
            /\ \A p \in DOMAIN r.before \ Destinations(r.manifest, r.root) :
                 p \in DOMAIN r.after /\ r.after[p] = r.before[p]
            /\ IsSeqPrefix(r.zbefore, r.zafter)
            /\ r.ok <=> (\A i \in 1..Len(r.manifest) : r.manifest[i].src \in DOMAIN files)
            /\ r.ok => /\ Destinations(r.manifest, r.root) \subseteq DOMAIN r.after
                       /\ Destinations(r.manifest, r.root)
                            \subseteq Range(NamesOf(r.zafter))]_vars

\* C10 witness: a first call in append mode that found an archive and no
\* directory, and returned with the directory made and the archive longer
C10_Witness ==
    /\ ncalls = 1 /\ ~last.nukeold /\ last.ok
    /\ DOMAIN last.before = {} /\ last.zbefore # <<>>
    /\ <<last.root>> \in dirs
    /\ DOMAIN last.after # {}
    /\ Len(last.zafter) > Len(last.zbefore)

\* C10: an append-mode call made when the target directory or the target
\* archive does not exist is an error and creates neither of them.
C10_AppendRequiresTarget ==
    [][AppendOnMissingTarget
       => (/\ ~last'.ok
           /\ dirs' = dirs
           /\ DOMAIN zips' = DOMAIN zips)]_vars

-----------------------------------------------------------------------------
(* Properties of the packager run again (SpecAgain) *)

\* C3: after two recreate-mode calls with the same manifest and target, for the
\* manifests main passes, the directory holds exactly the manifest's files and
\* the archive exactly one entry for each of them: no entry appears twice and
\* nothing of the first run is left besides what the second run wrote.
C3_RecreateTwiceOneCopy ==
    (/\ ncalls = 2
     /\ prev.nukeold /\ prev.ok /\ last.nukeold /\ last.ok
     /\ prev.root = last.root /\ prev.manifest = last.manifest)
    => /\ TreePaths(last.root) = Destinations(last.manifest, last.root)
       /\ ArchiveNames(last.root) = Destinations(last.manifest, last.root)
       /\ NoDuplicates(NamesOf(last.zafter))

-----------------------------------------------------------------------------
(* Properties of the driver (Spec) *)

\* the invocations of one build: ea64 = FALSE is the 32-bit build
BuildLog(ea64) == SelectSeq(invocations, LAMBDA r : r.ea64 = ea64)

CompileSteps == {"compile_wrapper", "compile_main"}

\* what a macro looks like on the command line of a platform's compiler
DefineDirective(platform) == IF platform = "win32" THEN "/D" ELSE "-D"
Define(platform, m) ==
    IF Len(m) = 2 THEN DefineDirective(platform) \o m[1] \o "=" \o m[2]
    ELSE DefineDirective(platform) \o m[1]

\* the SDK library directory of a platform and address width, as a link option
SdkLibOption(platform, system, sdk, width) ==
    (IF platform = "win32" THEN "/LIBPATH:" ELSE "-L")
    \o sdk \o ossep(system) \o "lib" \o ossep(system)
    \o (IF platform = "linux" THEN "x86_linux_gcc_"
        ELSE IF platform = "win32" THEN "x86_win_vc_" ELSE "x86_mac_gcc_")
    \o width

\* the builds of a run come in order: nothing of the 32-bit build follows
\* anything of the 64-bit build, and a 64-bit build needs --ea64
BuildsInOrder ==
    /\ \A i, j \in 1..Len(invocations) :
         (invocations[i].ea64 /\ ~invocations[j].ea64) => j < i
    /\ \A i \in 1..Len(invocations) : invocations[i].ea64 => args.ea64

\* C4: when an external step of build_plugin fails, it is the last process
\* the run starts: no later step of the build, no build_distribution call for
\* that build or after it, no plugin binary of that build, and the driver has
\* stopped (nothing more can happen).
C4_FailureStopsRun ==
    \A i \in 1..Len(invocations) :
        ~invocations[i].ok =>
            /\ i = Len(invocations)
            /\ pc = "failed"
            /\ ~ENABLED Next
            /\ last.at < i
            /\ ncalls = (IF invocations[i].ea64 THEN 1 ELSE 0)
            /\ <<detect_platform(sysname, invocations[i].ea64)[3]>> \notin DOMAIN files

\* C4 witness: the interface generation of the 64-bit build failed, after the
\* 32-bit plugin was built and packaged; no compile or link of that build ran
C4_Witness ==
    /\ pc = "failed"
    /\ Len(invocations) > 0
    /\ LET r == invocations[Len(invocations)]
       IN ~r.ok /\ r.step = "swig" /\ r.ea64
    /\ Len(BuildLog(TRUE)) = 1
    /\ ncalls = 1

\* C5: in every build of a run, on every platform, the macro __EA64__ is on
\* the SWIG command line and on both compile command lines exactly when the
\* build is the 64-bit one, and the link command line names the 64-bit SDK
\* library directory exactly then and the 32-bit one otherwise.
C5_EA64Threaded ==
    /\ BuildsInOrder
    /\ \A i \in 1..Len(invocations) :
         LET r == invocations[i]
             on64 == SdkLibOption(r.platform, sysname, args.ida_sdk, "64")
             on32 == SdkLibOption(r.platform, sysname, args.ida_sdk, "32")
         IN /\ r.step = "swig" => (("-D__EA64__" \in Range(r.argv)) <=> r.ea64)
            /\ r.step \in CompileSteps =>
                 ((Define(r.platform, <<"__EA64__">>) \in Range(r.argv)) <=> r.ea64)
            /\ r.step = "link" =>
                 /\ (on64 \in Range(r.argv)) <=> r.ea64
                 /\ (on32 \in Range(r.argv)) <=> ~r.ea64

\* C5 witness: a complete run with both builds on Linux
C5_Witness ==
    /\ pc = "done" /\ args.ea64 /\ sysname = "Linux"
    /\ Len(BuildLog(FALSE)) = 4 /\ Len(BuildLog(TRUE)) = 4

\* the macros a compile is to receive for a platform, width and feature choice
PlatformMacro(platform) ==
    IF platform = "linux" THEN <<"__LINUX__">>
    ELSE IF platform = "win32" THEN <<"__NT__">> ELSE <<"__MAC__">>
ToolchainMacros(platform) ==
    IF platform = "win32" THEN { <<"WIN32">>, <<"_USRDLL">>, <<"__NT__">> } ELSE {}
ExpectedMacros(platform, ea64, a) ==
    Range(COMMON_MACROS) \cup ToolchainMacros(platform) \cup {PlatformMacro(platform)}
    \cup (IF ea64 THEN { <<"__EA64__">> } ELSE {})
    \cup (IF a.with_hexrays THEN { <<"WITH_HEXRAYS">> } ELSE {})
    \cup { <<"NDEBUG">> }
    \cup (IF ~a.no_early_load THEN { <<"PLUGINFIX">> } ELSE {})

\* one builder variant per platform, and the defines are the tail of the argv
OneVariant(r) ==
    /\ r.argv[1] = (IF r.platform = "win32" THEN "cl" ELSE "g++")
    /\ SubSeq(r.argv, Len(r.argv) - Len(r.defines) + 1, Len(r.argv)) = r.defines
    /\ r.defines = [k \in 1..Len(r.allmacros) |-> Define(r.platform, r.allmacros[k])]

\* C6 as claimed: every compile receives exactly the common macros and the
\* macros of its platform, address width and feature selection, and no macro
\* is contributed twice.
C6_ExactMacrosOnce ==
    \A i \in 1..Len(invocations) :
        LET r == invocations[i]
        IN r.step \in CompileSteps =>
             /\ OneVariant(r)
             /\ Range(r.allmacros) = ExpectedMacros(r.platform, r.ea64, args)
             /\ NoDuplicates(r.allmacros)

\* C6 as amended: every compile receives exactly the common macros, the
\* toolchain's base macros, the macros of its platform, address width and
\* feature selection, NDEBUG and PLUGINFIX; each of them once, except __NT__
\* on win32, which the MSVC builder and the platform macros both contribute.
C6_ExactMacros ==
    \A i \in 1..Len(invocations) :
        LET r == invocations[i]
        IN r.step \in CompileSteps =>
             /\ OneVariant(r)
             /\ Range(r.allmacros) = ExpectedMacros(r.platform, r.ea64, args)
             /\ \A m \in Range(r.allmacros) :
                  Count(r.allmacros, m) =
                     (IF r.platform = "win32" /\ m = <<"__NT__">> THEN 2 ELSE 1)

\* C6 witness: a 64-bit compile on win32 with the decompiler feature, whose
\* command line holds /D__NT__ twice
C6_Witness ==
    \E i \in 1..Len(invocations) :
        LET r == invocations[i]
        IN /\ r.step = "compile_main" /\ r.platform = "win32" /\ r.ea64
           /\ args.with_hexrays
           /\ Count(r.argv, "/D__NT__") = 2
           /\ Count(r.argv, "/DWITH_HEXRAYS") = 1

\* the SWIG command line with the address-width macro taken out
WithoutEA64(argv) == SelectSeq(argv, LAMBDA tok : tok # "-D__EA64__")

\* C7: in every build the decompiler flag puts WITH_HEXRAYS once on the SWIG
\* command line and once on each compile command line, and nowhere when the
\* flag is off; the SWIG command line of the 64-bit build is that of the
\* 32-bit build with the address-width macro added.
C7_HexraysOnceEverywhere ==
    /\ \A i \in 1..Len(invocations) :
         LET r == invocations[i]
             n == IF args.with_hexrays THEN 1 ELSE 0
         IN /\ r.step = "swig" => Count(r.argv, "-DWITH_HEXRAYS") = n
            /\ r.step \in CompileSteps =>
                 Count(r.argv, Define(r.platform, <<"WITH_HEXRAYS">>)) = n
    /\ (BuildLog(FALSE) # <<>> /\ BuildLog(TRUE) # <<>>) =>
         /\ WithoutEA64(BuildLog(TRUE)[1].argv) = BuildLog(FALSE)[1].argv
         /\ Count(BuildLog(TRUE)[1].argv, "-D__EA64__") = 1

\* the steps of one build, in order
ExpectedSteps(platform) ==
    IF platform = "win32"
    THEN <<"swig", "patch", "compile_wrapper", "compile_main", "link">>
    ELSE <<"swig", "compile_wrapper", "compile_main", "link">>

\* what each step runs
StepRuns(r) ==
    /\ r.step = "swig" => r.argv[1] = SWIG_BIN(args) /\ r.argv[Len(r.argv)] = "idaapi.i"
    /\ r.step = "patch" => r.argv = <<"python", "patch_directors_cc.py", "-f", "idaapi.h">>
    /\ r.step = "compile_wrapper" => "idaapi.cpp" \in Range(r.argv)
    /\ r.step = "compile_main" => "python.cpp" \in Range(r.argv)
    /\ r.step \in CompileSteps => r.argv[1] = (IF r.platform = "win32" THEN "cl" ELSE "g++")
    /\ r.step = "link" =>
         /\ r.argv[1] = (IF r.platform = "win32" THEN "link" ELSE "g++")
         /\ Range(r.objects) \subseteq Range(r.argv)
         /\ Len(r.objects) = 2

\* C8: the invocations of a build are, in this order, interface generation,
\* the patch step, the compile of the wrapper, the compile of the plugin
\* source and one link, each started only after the one before it succeeded;
\* the patch step is there exactly on win32, the platform of the MSVC builder.
C8_StepOrder ==
    /\ BuildsInOrder
    /\ \A e \in BOOLEAN :
         LET log == BuildLog(e)
         IN \A i \in 1..Len(log) :
              /\ i <= Len(ExpectedSteps(log[i].platform))
              /\ log[i].step = ExpectedSteps(log[i].platform)[i]
              /\ i < Len(log) => log[i].ok
              /\ StepRuns(log[i])
    /\ (pc \in {"package", "source", "done"} \/ ncalls > 0) =>
         /\ Len(BuildLog(FALSE)) = Len(ExpectedSteps(detect_platform(sysname, FALSE)[2]))
         /\ BuildLog(FALSE)[Len(BuildLog(FALSE))].ok

\* C8 witness: a complete run with both builds on win32: ten invocations, the
\* patch step second in each build
C8_Witness ==
    /\ pc = "done" /\ args.ea64 /\ sysname = "Windows"
    /\ Len(invocations) = 10
    /\ invocations[2].step = "patch" /\ invocations[7].step = "patch"

\* C9: with --ea64, the 32-bit plugin is built and then packaged in recreate
\* mode, the 64-bit plugin is built and then packaged into the same target
\* in append mode, and that second pass writes the new plugin binary and
\* nothing else: everything the first pass wrote stays as it was, the 32-bit
\* plugin included, and both plugins are under plugins/.
C9_AppendAddsOnlyPlugin ==
    (args.ea64 /\ ncalls = 2) =>
        LET d32 == detect_platform(sysname, FALSE)
            d64 == detect_platform(sysname, TRUE)
            root == BINDISTDIR(d32[2])
            p32 == <<root, "plugins", d32[3]>>
            p64 == <<root, "plugins", d64[3]>>
        IN /\ prev.nukeold /\ prev.ok /\ ~last.nukeold /\ last.ok
           /\ prev.root = root /\ last.root = root
           /\ prev.at = Len(BuildLog(FALSE)) /\ prev.at > 0
           /\ last.at = Len(invocations) /\ last.at > prev.at
           /\ \A i \in 1..Len(invocations) : invocations[i].ok
           /\ DOMAIN prev.after = Destinations(prev.manifest, root)
           /\ last.before = prev.after /\ last.zbefore = prev.zafter
           /\ p64 \notin DOMAIN prev.after
           /\ DOMAIN last.after = DOMAIN prev.after \cup {p64}
           /\ \A p \in DOMAIN prev.after : last.after[p] = prev.after[p]
           /\ last.zafter = Append(prev.zafter, [name |-> p64, data |-> Generated(TRUE)])
           /\ ziplog = << Event(2, "open", <<zippath(root)>>), Event(2, "copy", p64),
                          Event(2, "write", p64), Event(2, "close", <<zippath(root)>>) >>
           /\ p32 \in DOMAIN last.after /\ last.after[p32] = Generated(FALSE)
           /\ last.after[p64] = Generated(TRUE)
           /\ TreeOf(files, root) = last.after

\* C9 witness: both passes done; the packaged idaapi.py is still the one the
\* 32-bit build generated, although the 64-bit build has regenerated it
C9_Witness ==
    /\ args.ea64 /\ ncalls = 2 /\ pc = "source" /\ last.ok
    /\ DOMAIN prev.before # {}
    /\ files[<<"idaapi.py">>] = Generated(TRUE)
    /\ last.after[<<last.root, "python", "idaapi.py">>] = Generated(FALSE)

-----------------------------------------------------------------------------
(* The archive's life within one call of build_distribution (SpecDist) *)

\* the positions of an operation in the events of the latest call
OpsOf(op) == { i \in 1..Len(ziplog) : ziplog[i].op = op }

\* the latest call opened the archive once, before anything else
OpenedOnceFirst ==
    /\ Cardinality(OpsOf("open")) = 1
    /\ ziplog[1] = Event(ncalls, "open", <<zippath(last.root)>>)

\* every archive write directly follows the copy of the same file, and every
\* copy is directly followed by the write of the same file
WritesFollowCopies ==
    /\ \A i \in OpsOf("write") :
         i > 1 /\ ziplog[i - 1] = Event(ncalls, "copy", ziplog[i].path)
    /\ \A i \in OpsOf("copy") :
         i < Len(ziplog) /\ ziplog[i + 1] = Event(ncalls, "write", ziplog[i].path)

\* the latest call closed the archive once, as its last operation, after all
\* the manifest's entries were copied and written
ClosedOnceLast ==
    /\ Cardinality(OpsOf("close")) = 1
    /\ ziplog[Len(ziplog)] = Event(ncalls, "close", <<zippath(last.root)>>)
    /\ Cardinality(OpsOf("copy")) = Len(last.manifest)
    /\ \A k \in 1..Len(last.manifest) :
         ziplog[2 * k].path = dstfilepath(last.manifest[k], last.root)

\* C11: in every call of build_distribution the archive is opened exactly
\* once and closed exactly once; every archive write lies between the open
\* and the close and directly follows the copy of the same file; the close
\* comes only after every manifest entry has been processed; and no call
\* ends with the archive still open.
C11_OpenedOnceClosedOnce ==
    ncalls > 0 =>
        /\ OpenedOnceFirst
        /\ WritesFollowCopies
        /\ ClosedOnceLast
        /\ ~zips[zippath(last.root)].open

\* what does hold of every call: one open first, writes paired with copies,
\* and a call that processed its whole manifest closed the archive once, last;
\* a call ended by a missing source file never closes it
ArchiveLifeOfCall ==
    ncalls > 0 =>
        /\ OpenedOnceFirst
        /\ WritesFollowCopies
        /\ last.ok => (ClosedOnceLast /\ ~zips[zippath(last.root)].open)
        /\ ~last.ok => (OpsOf("close") = {} /\ zips[zippath(last.root)].open
                        /\ Cardinality(OpsOf("copy")) < Len(last.manifest))

-----------------------------------------------------------------------------
(* The link step of build_plugin (Spec) *)

\* the names the SDK's import library goes by on a linker command line
SdkLibraryNames == {"ida.lib", "ida64.lib", "-lida", "-lida64"}

\* the scripting-environment library as the platform's linker is given it
PythonLibraryTokens(platform) ==
    IF platform = "linux" THEN {"-lpython2.7"}
    ELSE IF platform = "win32" THEN {"python27.lib"}
    ELSE {"-framework", "Python"}

\* the scripting-environment library directory as a link option
PythonLibOption(platform, system) ==
    IF platform = "linux" THEN "-L" \o EXEC_PREFIX(system) \o "/lib"
    ELSE IF platform = "win32" THEN "/LIBPATH:" \o EXEC_PREFIX(system) \o "\\libs"
    ELSE "-L."

\* the two object files of a platform
ObjectFiles(platform) ==
    IF platform = "win32" THEN <<"idaapi.obj", "python.obj">>
    ELSE <<"idaapi.o", "python.o">>

\* the output option of a platform's linker names the file
OutputIs(platform, argv, name) ==
    IF platform = "win32" THEN "/out:" \o name \in Range(argv)
    ELSE \E k \in 1..(Len(argv) - 1) : argv[k] = "-o" /\ argv[k + 1] = name

\* the plugin file names of the supported (platform, address-width) pairs
PluginNames ==
    { <<detect_platform(s, e)[2], e, detect_platform(s, e)[3]>> :
        s \in {"Windows", "Microsoft", "Linux", "Darwin"}, e \in BOOLEAN }

PluginNamesDistinct ==
    /\ Cardinality(PluginNames) = 6
    /\ \A x, y \in PluginNames : x[3] = y[3] => x = y

\* what the link invocation r receives, the SDK's library token aside
LinkInputs(r) ==
    LET width == IF r.ea64 THEN "64" ELSE "32"
    IN /\ r.objects = ObjectFiles(r.platform)
       /\ Range(r.objects) \subseteq Range(r.argv)
       /\ PythonLibraryTokens(r.platform) \subseteq Range(r.argv)
       /\ PythonLibOption(r.platform, sysname) \in Range(r.argv)
       /\ SdkLibOption(r.platform, sysname, args.ida_sdk, width) \in Range(r.argv)
       /\ OutputIs(r.platform, r.argv, detect_platform(sysname, r.ea64)[3])
       /\ r.platform = detect_platform(sysname, r.ea64)[2]

\* each build of a run links at most once
LinksOnce ==
    \A e \in BOOLEAN :
        Len(SelectSeq(BuildLog(e), LAMBDA r : r.step = "link")) <= 1

\* C12: on every supported platform and for either address width, the one
\* link invocation of build_plugin receives both object files, the
\* scripting-environment library, a library token naming the SDK's import
\* library, and both library search paths, and its output is the plugin file
\* name of that platform and width; the plugin file names of all (platform,
\* width) pairs are pairwise distinct.
C12_LinkInputsComplete ==
    /\ PluginNamesDistinct
    /\ LinksOnce
    /\ \A i \in 1..Len(invocations) :
         invocations[i].step = "link" =>
            /\ LinkInputs(invocations[i])
            /\ \E t \in Range(invocations[i].argv) : t \in SdkLibraryNames

\* what does hold of every link invocation: all of the above except that on
\* linux the SDK's library token is the empty string
LinkInputsAsBuilt ==
    /\ PluginNamesDistinct
    /\ LinksOnce
    /\ \A i \in 1..Len(invocations) :
         LET r == invocations[i]
         IN r.step = "link" =>
              /\ LinkInputs(r)
              /\ r.platform = "win32" => "ida.lib" \in Range(r.argv)
              /\ r.platform = "macosx" =>
                   (IF r.ea64 THEN "-lida64" ELSE "-lida") \in Range(r.argv)
              /\ r.platform = "linux" =>
                   /\ "" \in Range(r.argv)
                   /\ Range(r.argv) \cap SdkLibraryNames = {}

====
